---- MODULE Spec2Model ----
(***************************************************************************)
(* Model of MCMCSampleCollection (src/mcmc.py): a variable registry, an    *)
(* append-only log of sample tuples (sample index, variable index, value), *)
(* the locator first_tuple_index_of_desired_sample_index and the           *)
(* reconstructions full_posterior_samples and                              *)
(* marginal_posterior_samples_by_index / _by_name.                         *)
(*                                                                         *)
(* Conventions.  Python positions are 0-based: Tuple(tuples, p) is         *)
(* tuples[p] of the source.  numpy arrays are functions over 0..n-1.       *)
(* Floating-point values are the integers of Values (n stands for n.0).    *)
(* Every call leaves its outcome in ret: the operation, its arguments, how *)
(* it ended ("ok", or the name of the Python exception that ended it) and  *)
(* the value it returned.  The interpreter is the default one: assert      *)
(* statements are executed, and / on two ints is the flooring division of  *)
(* the dialect the source is written in (see its comment on lines 67-68).  *)
(***************************************************************************)
EXTENDS Integers, Sequences, FiniteSets, TLC

VARIABLES num_vars, var_index_given_name, var_name_given_index,
          num_samples, sample_tuples, ret

state == <<num_vars, var_index_given_name, var_name_given_index,
           num_samples, sample_tuples>>
vars == <<num_vars, var_index_given_name, var_name_given_index,
          num_samples, sample_tuples, ret>>

(* ---- bounds and input sets ------------------------------------------- *)

\* Longest log of the detailed specification Spec.
MaxLog == 3
\* Longest log of the marginal specification SpecMarginal.
MaxMargLog == 2
\* Longest log of the long-log specification SpecLong.
MaxLongLog == 14

Names == {"x", "y"}
Values == {1, 2}
VarInds == {0, 1}

\* The value Python's None is modelled by.
None == "None"

(* ---- Python helpers --------------------------------------------------- *)

\* tuples[p] for an in-range, non-negative position p (0-based).
Tuple(tuples, p) == tuples[p + 1]

\* numpy.zeros(n)
Zeros(n) == [i \in 0..(n - 1) |-> 0]

\* numpy.zeros((rows, cols))
ZerosMatrix(rows, cols) == [r \in 0..(rows - 1) |-> Zeros(cols)]

\* What ret holds after the call op(args) ended with the outcome out.
Called(op, args, out) ==
    [op |-> op, args |-> args, kind |-> out.kind, val |-> out.val]

\* An outcome of a call: how it ended and what it returned or reported.
Ok(v) == [kind |-> "ok", val |-> v]
Raise(e) == [kind |-> e, val |-> None]
RaiseMsg(e, msg) == [kind |-> e, val |-> msg]

(* ---- __init__ --------------------------------------------------------- *)

Init ==
    /\ num_vars = 0
    /\ var_index_given_name = [n \in {} |-> 0]
    /\ var_name_given_index = [i \in {} |-> ""]
    /\ num_samples = 1
    /\ sample_tuples = <<>>
    /\ ret = Called("__init__", <<>>, Ok(None))

(* ---- add_sample_by_index ---------------------------------------------- *)

\* d[k] = v of a Python dict d.
DictSet(d, k, v) == [j \in (DOMAIN d) \cup {k} |-> IF j = k THEN v ELSE d[j]]

\* SamplesAfter with the test of line 39 turned around.
SamplesAfter_Inverted(same_sample_as_prev) ==
    IF same_sample_as_prev THEN num_samples + 1 ELSE num_samples

\* num_samples after lines 39-40.
SamplesAfter(same_sample_as_prev) ==
    IF same_sample_as_prev THEN num_samples ELSE num_samples + 1

\* NewTuple with the sample index read before line 40 counts the new sample.
NewTuple_StaleIndex(var_ind, value, same_sample_as_prev) ==
    [s |-> num_samples - 1, v |-> var_ind, val |-> value]

\* The record lines 41-42 append.
NewTuple(var_ind, value, same_sample_as_prev) ==
    [s |-> SamplesAfter(same_sample_as_prev) - 1, v |-> var_ind, val |-> value]

\* AppendSample replacing the last record when a continuation writes the
\* same variable again (a log that removes duplicates).
AppendSample_Dedup(var_ind, value, same_sample_as_prev) ==
    /\ num_samples' = SamplesAfter(same_sample_as_prev)
    /\ sample_tuples' =
           IF /\ same_sample_as_prev
              /\ Len(sample_tuples) > 0
              /\ sample_tuples[Len(sample_tuples)].v = var_ind
           THEN [sample_tuples EXCEPT ![Len(sample_tuples)] =
                       NewTuple(var_ind, value, same_sample_as_prev)]
           ELSE Append(sample_tuples, NewTuple(var_ind, value, same_sample_as_prev))

\* add_sample_by_index, lines 38-42: the state change (it has no error path).
AppendSample(var_ind, value, same_sample_as_prev) ==
    /\ num_samples' = SamplesAfter(same_sample_as_prev)
    /\ sample_tuples' =
           Append(sample_tuples, NewTuple(var_ind, value, same_sample_as_prev))

add_sample_by_index(var_ind, value, same_sample_as_prev) ==
    /\ AppendSample(var_ind, value, same_sample_as_prev)
    /\ UNCHANGED <<num_vars, var_index_given_name, var_name_given_index>>
    /\ ret' = Called("add_sample_by_index",
                     <<var_ind, value, same_sample_as_prev>>, Ok(None))

(* ---- init_var --------------------------------------------------------- *)

\* init_var calling add_sample_by_index with its default
\* same_sample_as_prev = False.
init_var_NewSample(var_name, value) ==
    IF num_samples > 1
    THEN /\ UNCHANGED state
         /\ ret' = Called("init_var", <<var_name, value>>, Raise("SystemExit"))
    ELSE /\ var_index_given_name' = DictSet(var_index_given_name, var_name, num_vars)
         /\ var_name_given_index' = DictSet(var_name_given_index, num_vars, var_name)
         /\ AppendSample(num_vars, value, FALSE)
         /\ num_vars' = num_vars + 1
         /\ ret' = Called("init_var", <<var_name, value>>, Ok(None))

\* init_var without the increment of line 36.
init_var_NoCount(var_name, value) ==
    IF num_samples > 1
    THEN /\ UNCHANGED state
         /\ ret' = Called("init_var", <<var_name, value>>, Raise("SystemExit"))
    ELSE /\ var_index_given_name' = DictSet(var_index_given_name, var_name, num_vars)
         /\ var_name_given_index' = DictSet(var_name_given_index, num_vars, var_name)
         /\ AppendSample(num_vars, value, TRUE)
         /\ num_vars' = num_vars
         /\ ret' = Called("init_var", <<var_name, value>>, Ok(None))

\* init_var without the check of lines 30-31.
init_var_Unchecked(var_name, value) ==
    /\ var_index_given_name' = DictSet(var_index_given_name, var_name, num_vars)
    /\ var_name_given_index' = DictSet(var_name_given_index, num_vars, var_name)
    /\ AppendSample(num_vars, value, TRUE)
    /\ num_vars' = num_vars + 1
    /\ ret' = Called("init_var", <<var_name, value>>, Ok(None))

init_var(var_name, value) ==
    IF num_samples > 1
    THEN /\ UNCHANGED state
         /\ ret' = Called("init_var", <<var_name, value>>, Raise("SystemExit"))
    ELSE /\ var_index_given_name' = DictSet(var_index_given_name, var_name, num_vars)
         /\ var_name_given_index' = DictSet(var_name_given_index, num_vars, var_name)
         /\ AppendSample(num_vars, value, TRUE)
         /\ num_vars' = num_vars + 1
         /\ ret' = Called("init_var", <<var_name, value>>, Ok(None))

(* ---- add_sample_by_name ----------------------------------------------- *)

\* add_sample_by_name counting the new sample itself before it calls
\* add_sample_by_index, which counts it again.
add_sample_by_name_DoubleCount(var_name, value, same_sample_as_prev) ==
    IF var_name \notin DOMAIN var_index_given_name
    THEN /\ UNCHANGED state
         /\ ret' = Called("add_sample_by_name",
                          <<var_name, value, same_sample_as_prev>>, Raise("KeyError"))
    ELSE /\ num_samples' =
                IF same_sample_as_prev THEN num_samples ELSE num_samples + 2
         /\ sample_tuples' =
                Append(sample_tuples,
                       [s |-> num_samples' - 1,
                        v |-> var_index_given_name[var_name], val |-> value])
         /\ UNCHANGED <<num_vars, var_index_given_name, var_name_given_index>>
         /\ ret' = Called("add_sample_by_name",
                          <<var_name, value, same_sample_as_prev>>, Ok(None))

add_sample_by_name(var_name, value, same_sample_as_prev) ==
    IF var_name \notin DOMAIN var_index_given_name
    THEN /\ UNCHANGED state
         /\ ret' = Called("add_sample_by_name",
                          <<var_name, value, same_sample_as_prev>>, Raise("KeyError"))
    ELSE /\ AppendSample(var_index_given_name[var_name], value, same_sample_as_prev)
         /\ UNCHANGED <<num_vars, var_index_given_name, var_name_given_index>>
         /\ ret' = Called("add_sample_by_name",
                          <<var_name, value, same_sample_as_prev>>, Ok(None))

(* ---- first_tuple_index_of_desired_sample_index ------------------------ *)

\* The message of the assertion of lines 48-50.
OutOfBounds == "Desired index is out of bounds with number of samples"

\* Targets up to this one are searched linearly (line 52).
LinearThreshold == 10

\* Line 54 compares the enumerated item, which is the whole record
\* (sample_ind, var_ind, value), with the integer desired_sample_ind: a
\* Python tuple never equals an int.
TupleEqualsInt(t, n) == FALSE

\* Lines 53-58: the for/else scan.
RECURSIVE LinearScan(_, _, _)
LinearScan(tuples, i, desired_sample_ind) ==
    IF i >= Len(tuples)
    THEN Raise("SystemExit")
    ELSE IF TupleEqualsInt(Tuple(tuples, i), desired_sample_ind)
         THEN Ok(i)
         ELSE LinearScan(tuples, i + 1, desired_sample_ind)

\* Python list indexing: positions -len..len-1 are valid, negative ones count
\* from the end.
InRange(tuples, k) == (0 - Len(tuples)) <= k /\ k < Len(tuples)
At(tuples, k) == IF k >= 0 THEN tuples[k + 1] ELSE tuples[Len(tuples) + k + 1]

\* Line 69.
TestInd(lower_bound, upper_bound) == (upper_bound + lower_bound) \div 2

\* BinarySearch with > for the >= of line 70.
RECURSIVE BinarySearch_Strict(_, _, _, _)
BinarySearch_Strict(tuples, desired_sample_ind, lower_bound, upper_bound) ==
    LET test_ind == TestInd(lower_bound, upper_bound)
        Again(lo, up) ==
            IF lo + 1 < up
            THEN BinarySearch_Strict(tuples, desired_sample_ind, lo, up)
            ELSE Raise("AssertionError")
    IN  IF ~InRange(tuples, test_ind - 1)
        THEN Raise("IndexError")
        ELSE IF At(tuples, test_ind - 1).s > desired_sample_ind
        THEN Again(lower_bound, test_ind)
        ELSE IF ~InRange(tuples, test_ind)
        THEN Raise("IndexError")
        ELSE IF At(tuples, test_ind).s < desired_sample_ind
        THEN Again(test_ind, upper_bound)
        ELSE Ok(test_ind)

\* BinaryStep with the two bound updates of lines 71 and 73 exchanged.
BinaryStep_Swapped(tuples, desired_sample_ind, lower_bound, upper_bound) ==
    LET test_ind == TestInd(lower_bound, upper_bound)
        Step(outcome, lo, up) ==
            [test_ind |-> test_ind, outcome |-> outcome,
             lower_bound |-> lo, upper_bound |-> up]
    IN  IF ~InRange(tuples, test_ind - 1)
        THEN Step("IndexError", lower_bound, upper_bound)
        ELSE IF At(tuples, test_ind - 1).s >= desired_sample_ind
        THEN Step("lower", test_ind, upper_bound)
        ELSE IF ~InRange(tuples, test_ind)
        THEN Step("IndexError", lower_bound, upper_bound)
        ELSE IF At(tuples, test_ind).s < desired_sample_ind
        THEN Step("upper", lower_bound, test_ind)
        ELSE Step("return", lower_bound, upper_bound)

\* Lines 69-75: one iteration of the loop: the position probed, what the
\* iteration did ("upper": line 71, "lower": line 73, "return": line 75,
\* "IndexError": a probe outside the list) and the bounds after it.
BinaryStep(tuples, desired_sample_ind, lower_bound, upper_bound) ==
    LET test_ind == TestInd(lower_bound, upper_bound)
        Step(outcome, lo, up) ==
            [test_ind |-> test_ind, outcome |-> outcome,
             lower_bound |-> lo, upper_bound |-> up]
    IN  IF ~InRange(tuples, test_ind - 1)
        THEN Step("IndexError", lower_bound, upper_bound)
        ELSE IF At(tuples, test_ind - 1).s >= desired_sample_ind
        THEN Step("upper", lower_bound, test_ind)
        ELSE IF ~InRange(tuples, test_ind)
        THEN Step("IndexError", lower_bound, upper_bound)
        ELSE IF At(tuples, test_ind).s < desired_sample_ind
        THEN Step("lower", test_ind, upper_bound)
        ELSE Step("return", lower_bound, upper_bound)

\* Lines 63-79: the iterations of the loop, in order; the loop goes on
\* after an iteration that moved a bound and passed the check of line 79.
RECURSIVE BinarySteps(_, _, _, _)
BinarySteps(tuples, desired_sample_ind, lower_bound, upper_bound) ==
    LET step == BinaryStep(tuples, desired_sample_ind, lower_bound, upper_bound)
    IN  IF /\ step.outcome \in {"upper", "lower"}
           /\ step.lower_bound + 1 < step.upper_bound
        THEN <<step>> \o BinarySteps(tuples, desired_sample_ind,
                                     step.lower_bound, step.upper_bound)
        ELSE <<step>>

\* Lines 63-79: the outcome of the loop.
RECURSIVE BinarySearch(_, _, _, _)
BinarySearch(tuples, desired_sample_ind, lower_bound, upper_bound) ==
    LET step == BinaryStep(tuples, desired_sample_ind, lower_bound, upper_bound)
    IN  IF step.outcome = "IndexError"
        THEN Raise("IndexError")
        ELSE IF step.outcome = "return"
        THEN Ok(step.test_ind)
        ELSE IF step.lower_bound + 1 < step.upper_bound
        THEN BinarySearch(tuples, desired_sample_ind,
                          step.lower_bound, step.upper_bound)
        ELSE Raise("AssertionError")

\* FirstTupleIndex with the bound of line 48 off by one.
FirstTupleIndex_OffByOne(desired_sample_ind) ==
    IF ~(desired_sample_ind <= num_samples)
    THEN RaiseMsg("AssertionError", OutOfBounds)
    ELSE IF desired_sample_ind <= LinearThreshold
    THEN LinearScan(sample_tuples, 0, desired_sample_ind)
    ELSE BinarySearch(sample_tuples, desired_sample_ind, 0, Len(sample_tuples))

\* The outcome of first_tuple_index_of_desired_sample_index, lines 47-79.
FirstTupleIndex(desired_sample_ind) ==
    IF ~(desired_sample_ind <= num_samples - 1)
    THEN RaiseMsg("AssertionError", OutOfBounds)
    ELSE IF desired_sample_ind <= LinearThreshold
    THEN LinearScan(sample_tuples, 0, desired_sample_ind)
    ELSE BinarySearch(sample_tuples, desired_sample_ind, 0, Len(sample_tuples))

first_tuple_index_of_desired_sample_index(desired_sample_ind) ==
    /\ UNCHANGED state
    /\ ret' = Called("first_tuple_index_of_desired_sample_index",
                     <<desired_sample_ind>>, FirstTupleIndex(desired_sample_ind))

(* ---- full_posterior_samples ------------------------------------------- *)

\* Lines 87-95: the scan from record i on, with the running sample index,
\* the running vector and the output matrix.
RECURSIVE FullScan(_, _, _, _, _, _, _)
FullScan(tuples, i, starting_sample_ind, ending_sample_ind, current_sample_ind, current_sample, posterior_samples) ==
    IF i >= Len(tuples)
    THEN Ok(posterior_samples)
    ELSE
      LET t == Tuple(tuples, i)
          row == current_sample_ind - starting_sample_ind
          flushed == IF current_sample_ind >= starting_sample_ind
                     THEN [posterior_samples EXCEPT ![row] = current_sample]
                     ELSE posterior_samples
          written == [current_sample EXCEPT ![t.v] = t.val]
      IN  IF current_sample_ind # t.s
          THEN IF ~(current_sample_ind > t.s)
               THEN Raise("AssertionError")
               ELSE IF current_sample_ind >= starting_sample_ind
                       /\ row \notin DOMAIN posterior_samples
               THEN Raise("IndexError")
               ELSE IF t.s >= ending_sample_ind
               THEN Ok(flushed)
               ELSE IF t.v \notin DOMAIN current_sample
               THEN Raise("IndexError")
               ELSE FullScan(tuples, i + 1, starting_sample_ind, ending_sample_ind,
                             t.s, written, flushed)
          ELSE IF t.v \notin DOMAIN current_sample
               THEN Raise("IndexError")
               ELSE FullScan(tuples, i + 1, starting_sample_ind, ending_sample_ind,
                             current_sample_ind, written, posterior_samples)

\* The outcome of full_posterior_samples, lines 81-96.
FullPosterior(starting_sample_ind, ending_sample_ind) ==
    IF ending_sample_ind - starting_sample_ind < 0
    THEN Raise("ValueError")
    ELSE FullScan(sample_tuples, 0, starting_sample_ind, ending_sample_ind, 0,
                  Zeros(num_vars),
                  ZerosMatrix(ending_sample_ind - starting_sample_ind, num_vars))

\* full_posterior_samples with the assignment of line 83 turned around:
\* self.num_samples = ending_sample_ind.
full_posterior_samples_Storing(starting_sample_ind, ending_sample_ind) ==
    /\ num_samples' = ending_sample_ind
    /\ UNCHANGED <<num_vars, var_index_given_name, var_name_given_index,
                   sample_tuples>>
    /\ ret' = Called("full_posterior_samples",
                     <<starting_sample_ind, ending_sample_ind>>,
                     FullPosterior(starting_sample_ind, ending_sample_ind))

full_posterior_samples(starting_sample_ind, ending_sample_ind) ==
    /\ UNCHANGED state
    /\ ret' = Called("full_posterior_samples",
                     <<starting_sample_ind, ending_sample_ind>>,
                     FullPosterior(starting_sample_ind, ending_sample_ind))

(* ---- marginal_posterior_samples_by_index ------------------------------ *)

\* list.index(x): the first position holding x; the call raises ValueError
\* when there is none.
HasItem(list, x) == \E p \in 1..Len(list) : list[p] = x
ListIndex(list, x) ==
    CHOOSE p \in 0..(Len(list) - 1) :
        /\ list[p + 1] = x
        /\ \A q \in 0..(p - 1) : list[q + 1] # x

\* Lines 118-126.
RECURSIVE MarginalScan(_, _, _, _, _, _, _, _)
MarginalScan(tuples, i, marg_var_inds, starting_sample_ind, ending_sample_ind, current_sample_ind, current_sample, posterior_samples) ==
    IF i >= Len(tuples)
    THEN Ok(posterior_samples)
    ELSE
      LET t == Tuple(tuples, i)
          row == current_sample_ind - starting_sample_ind
          flushed == IF current_sample_ind >= starting_sample_ind
                     THEN [posterior_samples EXCEPT ![row] = current_sample]
                     ELSE posterior_samples
          written == [current_sample EXCEPT ![ListIndex(marg_var_inds, t.v)] = t.val]
      IN  IF current_sample_ind # t.s
          THEN IF ~(current_sample_ind > t.s)
               THEN Raise("AssertionError")
               ELSE IF current_sample_ind >= starting_sample_ind
                       /\ row \notin DOMAIN posterior_samples
               THEN Raise("IndexError")
               ELSE IF t.s >= ending_sample_ind
               THEN Ok(flushed)
               ELSE IF ~HasItem(marg_var_inds, t.v)
               THEN Raise("ValueError")
               ELSE MarginalScan(tuples, i + 1, marg_var_inds, starting_sample_ind,
                                 ending_sample_ind, t.s, written, flushed)
          ELSE IF ~HasItem(marg_var_inds, t.v)
               THEN Raise("ValueError")
               ELSE MarginalScan(tuples, i + 1, marg_var_inds, starting_sample_ind,
                                 ending_sample_ind, current_sample_ind, written,
                                 posterior_samples)

\* The outcome of marginal_posterior_samples_by_index, lines 109-127.
MarginalPosterior(marg_var_inds, starting_sample_ind, ending_sample_ind) ==
    IF ending_sample_ind - starting_sample_ind < 0
    THEN Raise("ValueError")
    ELSE MarginalScan(sample_tuples, 0, marg_var_inds, starting_sample_ind,
                      ending_sample_ind, 0, Zeros(Len(marg_var_inds)),
                      ZerosMatrix(ending_sample_ind - starting_sample_ind,
                                  Len(marg_var_inds)))

marginal_posterior_samples_by_index(marg_var_inds, starting_sample_ind, ending_sample_ind) ==
    /\ UNCHANGED state
    /\ ret' = Called("marginal_posterior_samples_by_index",
                     <<marg_var_inds, starting_sample_ind, ending_sample_ind>>,
                     MarginalPosterior(marg_var_inds, starting_sample_ind,
                                       ending_sample_ind))

(* ---- marginal_posterior_samples_by_name ------------------------------- *)

\* Line 104: the registry indices of the names, in the order given.
IndicesOf(marg_var_names) ==
    [j \in 1..Len(marg_var_names) |-> var_index_given_name[marg_var_names[j]]]

\* The outcome of marginal_posterior_samples_by_name, lines 98-107: the
\* lookup of line 104 raises KeyError for an unregistered name; the call of
\* lines 105-107 passes 0 and self.num_samples, whatever range the caller
\* gave, and its value is not returned.
MarginalByName(marg_var_names, starting_sample_ind, ending_sample_ind) ==
    IF \E j \in 1..Len(marg_var_names) :
           marg_var_names[j] \notin DOMAIN var_index_given_name
    THEN Raise("KeyError")
    ELSE LET inner == MarginalPosterior(IndicesOf(marg_var_names), 0, num_samples)
         IN  IF inner.kind = "ok" THEN Ok(None) ELSE inner

marginal_posterior_samples_by_name(marg_var_names, starting_sample_ind, ending_sample_ind) ==
    /\ UNCHANGED state
    /\ ret' = Called("marginal_posterior_samples_by_name",
                     <<marg_var_names, starting_sample_ind, ending_sample_ind>>,
                     MarginalByName(marg_var_names, starting_sample_ind,
                                    ending_sample_ind))

(* ---- specifications --------------------------------------------------- *)

\* The lists of variable names a marginal is asked for.
NameLists ==
    {<<>>} \cup {<<a>> : a \in Names} \cup {<<a, b>> : a, b \in Names}

\* The lists of variable indices a marginal is asked for.
MargLists ==
    {<<>>} \cup {<<a>> : a \in VarInds} \cup {<<a, b>> : a, b \in VarInds}

\* The ranges a reconstruction is asked for: 0 <= start < end <= num_samples.
Ranges == {se \in (0..num_samples) \X (0..num_samples) : se[1] < se[2]}

\* The targets the locator is asked for: the valid ones and three beyond.
Targets == 0..(num_samples + 2)

\* Targets above the threshold, beyond every sample of a short log.
FarTargets == {LinearThreshold + 1, LinearThreshold + 2}

\* The targets asked for on long logs: the first sample, and the ones at
\* and above the threshold between the two searches.
LongTargets == {d \in Targets : d = 0 \/ d >= LinearThreshold}

\* The calls that write, while the log holds fewer than max records.
Writes(max) ==
    \/ \E n \in Names, v \in Values :
           /\ Len(sample_tuples) < max
           /\ init_var(n, v)
    \/ \E i \in VarInds, v \in Values, same \in BOOLEAN :
           /\ Len(sample_tuples) < max
           /\ add_sample_by_index(i, v, same)
    \/ \E n \in Names, v \in Values, same \in BOOLEAN :
           /\ Len(sample_tuples) < max
           /\ add_sample_by_name(n, v, same)

\* Registry, log, locator and full reconstruction.
Next ==
    \/ Writes(MaxLog)
    \/ \E d \in Targets \cup FarTargets :
           first_tuple_index_of_desired_sample_index(d)
    \/ \E se \in Ranges : full_posterior_samples(se[1], se[2])

Spec == Init /\ [][Next]_vars

\* Every operation: registry, log, locator, full and marginal reconstruction.
NextMarginal ==
    \/ Writes(MaxMargLog)
    \/ \E d \in Targets : first_tuple_index_of_desired_sample_index(d)
    \/ \E se \in Ranges : full_posterior_samples(se[1], se[2])
    \/ \E m \in MargLists, se \in Ranges :
           marginal_posterior_samples_by_index(m, se[1], se[2])
    \/ \E m \in NameLists, se \in Ranges :
           marginal_posterior_samples_by_name(m, se[1], se[2])

SpecMarginal == Init /\ [][NextMarginal]_vars

\* Long logs: one variable, one value, so that the log can hold more than
\* LinearThreshold samples, of one or more records each.
NextLong ==
    \/ /\ Len(sample_tuples) < MaxLongLog
       /\ init_var("x", 1)
    \/ \E same \in BOOLEAN :
           /\ Len(sample_tuples) < MaxLongLog
           /\ add_sample_by_index(0, 1, same)
    \/ \E d \in LongTargets : first_tuple_index_of_desired_sample_index(d)

SpecLong == Init /\ [][NextLong]_vars

(* ---- reference definitions of the properties -------------------------- *)

\* The positions (0-based) of the records of sample s.
PositionsOf(s) == {p \in 0..(Len(sample_tuples) - 1) : Tuple(sample_tuples, p).s = s}

\* A reference linear scan: the first position of a record of sample s.
FirstPosition(s) == CHOOSE p \in PositionsOf(s) : \A q \in PositionsOf(s) : p <= q

\* Every record's variable index is a registered one.
AllRegistered ==
    \A p \in 0..(Len(sample_tuples) - 1) :
        Tuple(sample_tuples, p).v \in 0..(num_vars - 1)

\* The value of the last record, in append order, for variable v among the
\* records of samples up to s; 0 when there is none.
LastValue(v, s) ==
    LET ps == {p \in 0..(Len(sample_tuples) - 1) :
                  /\ Tuple(sample_tuples, p).v = v
                  /\ Tuple(sample_tuples, p).s <= s}
    IN  IF ps = {} THEN 0
        ELSE Tuple(sample_tuples, CHOOSE p \in ps : \A q \in ps : q <= p).val

\* The dense matrix of samples start..end-1.
DenseMatrix(start, end) ==
    [r \in 0..(end - start - 1) |->
        [v \in 0..(num_vars - 1) |-> LastValue(v, start + r)]]

\* The last call was op.
Did(op) == ret.op = op

(* ---- claims ----------------------------------------------------------- *)

\* C1: once a sample beyond index 0 has been opened (num_samples > 1),
\* every init_var call ends with SystemExit (registration closed) and leaves
\* num_vars, num_samples, both maps and the log unchanged.
C1_RegistrationClosed ==
    [][(ret'.op = "init_var" /\ num_samples > 1)
          => (ret'.kind = "SystemExit" /\ UNCHANGED state)]_vars

\* An init_var call was refused after variables were registered and a
\* second sample opened.
C1_Witness ==
    /\ Did("init_var") /\ ret.kind = "SystemExit"
    /\ num_samples > 1 /\ num_vars > 0

\* C2: with every variable index registered, full_posterior_samples(0,
\* num_samples) succeeds and row s, column v is the last value recorded for
\* v in samples up to s (0 if none), the last sample included.
C2_DenseReconstruction ==
    (Did("full_posterior_samples") /\ ret.args = <<0, num_samples>> /\ AllRegistered)
        => (ret.kind = "ok" /\ ret.val = DenseMatrix(0, num_samples))

\* Sample 0 holds exactly the records init_var wrote, for distinct names.
OnlyRegistration ==
    /\ Cardinality(PositionsOf(0)) = num_vars
    /\ Cardinality(DOMAIN var_index_given_name) = num_vars

\* C3: when the variables were registered under distinct names and nothing
\* else was written to sample 0, row 0 of full_posterior_samples holds at
\* each variable's index the value passed to init_var (the record init_var
\* wrote for index i is the i-th of the log).
C3_FirstRowIsRegistration ==
    (Did("full_posterior_samples") /\ ret.args[1] = 0 /\ OnlyRegistration)
        => /\ ret.kind = "ok"
           /\ \A i \in 0..(num_vars - 1) :
                  ret.val[0][i] = Tuple(sample_tuples, i).val

\* C4: full_posterior_samples(0, num_samples) returns a matrix M with
\* M[s][v] = M[s-1][v] for every sample s > 0 and registered variable v
\* that has no record in sample s.
C4_ForwardFill ==
    (Did("full_posterior_samples") /\ ret.args = <<0, num_samples>>)
        => /\ ret.kind = "ok"
           /\ \A s \in 1..(num_samples - 1), v \in 0..(num_vars - 1) :
                  (\A p \in PositionsOf(s) : Tuple(sample_tuples, p).v # v)
                      => ret.val[s][v] = ret.val[s - 1][v]

\* C5: for a target in [0, num_samples) that has a record, the locator
\* returns the smallest position of a record of that sample.
C5_LocatorFindsFirst ==
    (/\ Did("first_tuple_index_of_desired_sample_index")
     /\ ret.args[1] < num_samples
     /\ PositionsOf(ret.args[1]) # {})
        => (ret.kind = "ok" /\ ret.val = FirstPosition(ret.args[1]))

\* C6: for a target above the linear threshold and below num_samples, the
\* binary search returns the position a reference linear scan returns.
C6_BinaryAgreesWithLinear ==
    (/\ Did("first_tuple_index_of_desired_sample_index")
     /\ ret.args[1] > LinearThreshold
     /\ ret.args[1] < num_samples)
        => (ret.kind = "ok" /\ ret.val = FirstPosition(ret.args[1]))

\* The binary search answered on a log whose samples before the target do
\* not all hold one record.
C6_Witness ==
    /\ Did("first_tuple_index_of_desired_sample_index")
    /\ ret.args[1] > LinearThreshold
    /\ ret.kind = "ok"
    /\ ret.val > ret.args[1]
    /\ Cardinality(PositionsOf(0)) = 1

\* C7: for every target d >= num_samples the locator ends with the
\* out-of-bounds assertion and returns no position.
C7_OutOfRange ==
    (/\ Did("first_tuple_index_of_desired_sample_index")
     /\ ret.args[1] >= num_samples)
        => (ret.kind = "AssertionError" /\ ret.val = OutOfBounds)

\* locate(5) on a collection with 3 samples was refused.
C7_Witness ==
    /\ Did("first_tuple_index_of_desired_sample_index")
    /\ ret.args[1] = 5 /\ num_samples = 3
    /\ ret.kind = "AssertionError"

\* C8: for every list of registered variable indices and every range
\* accepted by full_posterior_samples, the marginal reconstruction returns
\* a matrix whose entry (i, j) is entry (i, subset[j]) of the full one.
C8_MarginalAgreesWithFull ==
    LET subset == ret.args[1]
        full == FullPosterior(ret.args[2], ret.args[3])
    IN  (/\ Did("marginal_posterior_samples_by_index")
         /\ \A j \in 1..Len(subset) : subset[j] \in 0..(num_vars - 1)
         /\ full.kind = "ok")
            => /\ ret.kind = "ok"
               /\ \A i \in DOMAIN full.val, j \in 1..Len(subset) :
                      ret.val[i][j - 1] = full.val[i][subset[j]]

\* C9: full_posterior_samples changes none of num_vars, num_samples, the
\* maps and the log, and called again with the same range right after
\* itself it ends the same way with the same matrix.
C9_ReadIdempotent ==
    [][ret'.op = "full_posterior_samples"
          => /\ UNCHANGED state
             /\ (ret.op = "full_posterior_samples" /\ ret.args = ret'.args)
                    => (ret'.kind = ret.kind /\ ret'.val = ret.val)]_vars

\* A reconstruction was returned on a collection with registered variables.
C9_Witness ==
    /\ Did("full_posterior_samples") /\ ret.kind = "ok"
    /\ num_vars > 1 /\ Len(sample_tuples) > 1

\* C10: the sample indices of the log are non-decreasing in append order, a
\* record that starts a new sample carries the previous index plus one (the
\* first record carries 0 or 1), and the last record carries
\* num_samples - 1.
C10_LogOrder ==
    /\ \A p \in 1..(Len(sample_tuples) - 1) :
           sample_tuples[p + 1].s \in {sample_tuples[p].s, sample_tuples[p].s + 1}
    /\ Len(sample_tuples) > 0
           => /\ sample_tuples[1].s \in {0, 1}
              /\ sample_tuples[Len(sample_tuples)].s = num_samples - 1

\* A continuation was appended before any variable was registered, and two
\* samples were opened after it.
C10_Witness ==
    /\ num_vars = 0
    /\ Len(sample_tuples) = 3
    /\ sample_tuples[1].s = 0
    /\ sample_tuples[3].s = 2

\* The last call appended a record (op, its arguments and its outcome are
\* those of a successful add_sample call).
AddedSample(r) ==
    /\ r.op \in {"add_sample_by_index", "add_sample_by_name"}
    /\ r.kind = "ok"

\* C11: the registry is a bijection: var_index_given_name and
\* var_name_given_index are mutual inverses over the registered names and
\* the indices 0..num_vars-1 (so a name keeps the one index it was given,
\* also when init_var is called again with that name).
C11_RegistryBijection ==
    /\ DOMAIN var_name_given_index = 0..(num_vars - 1)
    /\ \A n \in DOMAIN var_index_given_name :
           /\ var_index_given_name[n] \in DOMAIN var_name_given_index
           /\ var_name_given_index[var_index_given_name[n]] = n
    /\ \A i \in DOMAIN var_name_given_index :
           /\ var_name_given_index[i] \in DOMAIN var_index_given_name
           /\ var_index_given_name[var_name_given_index[i]] = i

\* C12: the keys of var_name_given_index are exactly 0..num_vars-1 after
\* every step; a successful init_var call assigns the index num_vars (not
\* assigned before) and counts it, and no other call changes either.
C12_DenseIndices ==
    [][/\ DOMAIN var_name_given_index' = 0..(num_vars' - 1)
       /\ IF ret'.op = "init_var" /\ ret'.kind = "ok"
          THEN /\ num_vars \notin DOMAIN var_name_given_index
               /\ DOMAIN var_name_given_index' =
                      DOMAIN var_name_given_index \cup {num_vars}
               /\ num_vars' = num_vars + 1
          ELSE UNCHANGED <<num_vars, var_name_given_index>>]_vars

\* Three init_var calls succeeded, one of them for a name registered before.
C12_Witness ==
    /\ Did("init_var") /\ ret.kind = "ok"
    /\ num_vars = 3
    /\ DOMAIN var_name_given_index = {0, 1, 2}

C14_ByNameAgreesWithByIndex ==
    LET names == ret.args[1]
        byindex == MarginalPosterior(IndicesOf(names), ret.args[2], ret.args[3])
    IN  (/\ Did("marginal_posterior_samples_by_name")
         /\ \A j \in 1..Len(names) : names[j] \in DOMAIN var_index_given_name
         /\ byindex.kind = "ok")
            => (ret.kind = "ok" /\ ret.val # None /\ ret.val = byindex.val)

Wrote(r) == r.kind = "ok" /\ (r.op = "init_var" \/ AddedSample(r))

\* C16: under every operation the log before is a prefix of the log
\* after; a successful write extends it by exactly one record, every read
\* and every failed call leaves it identical.
C16_AppendOnly ==
    [][/\ Len(sample_tuples') >= Len(sample_tuples)
       /\ SubSeq(sample_tuples', 1, Len(sample_tuples)) = sample_tuples
       /\ Len(sample_tuples') =
              IF Wrote(ret') THEN Len(sample_tuples) + 1 ELSE Len(sample_tuples)]_vars

\* A failed write left the log as it was.
C16_Witness ==
    /\ Did("add_sample_by_name") /\ ret.kind = "KeyError"
    /\ Len(sample_tuples) = 1 /\ num_samples = 2

\* The iterations of the binary search for target d on the current log.
StepsFor(d) == BinarySteps(sample_tuples, d, 0, Len(sample_tuples))

\* The bounds an iteration started from: those the previous one left.
BoundsBefore(steps, k) ==
    IF k = 1
    THEN [lower_bound |-> 0, upper_bound |-> Len(sample_tuples)]
    ELSE [lower_bound |-> steps[k - 1].lower_bound,
          upper_bound |-> steps[k - 1].upper_bound]

\* C17: for a target above the linear threshold and below num_samples the
\* binary search ends by returning a position: every probe satisfies
\* 1 <= test_ind < len(sample_tuples), every iteration that moves a bound
\* leaves lower_bound + 1 < upper_bound and a strictly smaller interval, and
\* the last iteration returns.
C17_BinarySearchTerminates ==
    (/\ Did("first_tuple_index_of_desired_sample_index")
     /\ ret.args[1] > LinearThreshold
     /\ ret.args[1] < num_samples)
        => LET steps == StepsFor(ret.args[1])
           IN  /\ \A k \in 1..Len(steps) :
                      /\ 1 <= steps[k].test_ind
                      /\ steps[k].test_ind < Len(sample_tuples)
                      /\ steps[k].outcome # "IndexError"
                      /\ steps[k].outcome \in {"upper", "lower"}
                             => /\ steps[k].lower_bound + 1 < steps[k].upper_bound
                                /\ steps[k].upper_bound - steps[k].lower_bound
                                       < BoundsBefore(steps, k).upper_bound
                                           - BoundsBefore(steps, k).lower_bound
               /\ steps[Len(steps)].outcome = "return"
               /\ ret.kind = "ok"
               /\ ret.val = steps[Len(steps)].test_ind

\* A search that moved both bounds before it returned.
C17_Witness ==
    /\ Did("first_tuple_index_of_desired_sample_index")
    /\ ret.args[1] > LinearThreshold
    /\ ret.kind = "ok"
    /\ \E j, k \in 1..Len(StepsFor(ret.args[1])) :
           /\ StepsFor(ret.args[1])[j].outcome = "upper"
           /\ StepsFor(ret.args[1])[k].outcome = "lower"

\* C18: the scans of full_posterior_samples and of
\* marginal_posterior_samples_by_index never end on the ordering assertion
\* of lines 89 and 120.
C18_OrderingAssertionHolds ==
    (Did("full_posterior_samples") \/ Did("marginal_posterior_samples_by_index"))
        => ret.kind # "AssertionError"

\* C19: in marginal_posterior_samples_by_index a record whose variable
\* index is not in marg_var_inds is skipped: on a log of one sample, where
\* no flush takes place, the call returns, and it never ends on the
\* ValueError of the lookup marg_var_inds.index(var_ind).
C19_OtherVariablesSkipped ==
    Did("marginal_posterior_samples_by_index")
        => /\ ret.kind # "ValueError"
           /\ num_samples = 1 => ret.kind = "ok"

\* C20 as stated: num_samples is 1 plus the number of add_sample calls
\* made with same_sample_as_prev = False, so right after such a call, be it
\* one that raised, num_samples is at least 2.
C20_CountsEveryCall ==
    (ret.op \in {"add_sample_by_index", "add_sample_by_name"}
        /\ ret.args[3] = FALSE)
        => num_samples >= 2

\* C20: num_samples grows by one exactly on an add_sample call with
\* same_sample_as_prev = False that returned (so it is 1 plus the number of
\* such calls; a call that raised KeyError is not counted);
\* after every step each record's sample index is in [0, num_samples), each
\* index in [1, num_samples) has a record, the last record carries
\* num_samples - 1, and records of sample 0 exist only at the head of the
\* log (written before the first new sample).
C20_SampleCount ==
    [][/\ num_samples' =
              IF AddedSample(ret') /\ ret'.args[3] = FALSE
              THEN num_samples + 1
              ELSE num_samples
       /\ \A p \in 1..Len(sample_tuples') :
              sample_tuples'[p].s \in 0..(num_samples' - 1)
       /\ \A i \in 1..(num_samples' - 1) :
              \E p \in 1..Len(sample_tuples') : sample_tuples'[p].s = i
       /\ Len(sample_tuples') > 0
              => sample_tuples'[Len(sample_tuples')].s = num_samples' - 1
       /\ (\E p \in 1..Len(sample_tuples') : sample_tuples'[p].s = 0)
              => sample_tuples'[1].s = 0]_vars

\* One variable was registered and two samples were opened by name.
C20_Witness ==
    /\ Did("add_sample_by_name") /\ ret.kind = "ok" /\ ret.args[3] = FALSE
    /\ num_vars = 1 /\ num_samples = 3
    /\ Len(sample_tuples) = 3 /\ sample_tuples[1].s = 0

====
